---- MODULE Spec2Model ----
(***************************************************************************)
(* Model of the request dispatcher of matrix_sdk (HttpClient, in           *)
(* src/matrix_sdk/src/http_client.rs).                                     *)
(*                                                                         *)
(* HttpClient::send runs send_request, response_to_http_response and the   *)
(* operation's decode.  The model has one process per concurrent caller of *)
(* send on one shared HttpClient, plus the external writer of the session  *)
(* (login, logout, credential refresh).  A caller's steps are cut at the   *)
(* await points of the code: session.read().await, the transport's         *)
(* send_request(..).await and response.bytes().await.                      *)
(*                                                                         *)
(* An Option<T> is a sequence of length at most one: <<>> is None and      *)
(* <<v>> is Some(v).                                                       *)
(*                                                                         *)
(* The second part models the request envelopes of matrix_sdk_crypto       *)
(* (src/matrix_sdk_crypto/src/requests.rs): OutgoingRequests, OutgoingRequest *)
(* and IncomingResponse, with the life of an envelope around them.         *)
(***************************************************************************)
EXTENDS Naturals, Sequences, FiniteSets, TLC

VARIABLES
    session,   \* Option<Session> behind the RwLock
    readers,   \* the callers that hold a read guard of the lock
    writer,    \* TRUE while the external writer holds the write guard
    waiting,   \* TRUE while the external writer is queued in session.write().await
    call,      \* per caller: the state of its current invocation of send
    envelope,  \* per slot: an OutgoingRequest and where it is in its life
    resolution \* the IncomingResponse made last, if any

vars == <<session, readers, writer, waiting, call, envelope, resolution>>

----------------------------------------------------------------------------
(* Bounds and input domains *)

NumCallers == 2
Callers == 1..NumCallers

None == <<>>
Some(v) == <<v>>

\* Access tokens a session can hold; the empty string is a String like any other.
Tokens == {"", "tok"}
Sessions == {None} \cup {Some([access_token |-> t]) : t \in Tokens}

Methods == {"GET", "POST", "PUT", "DELETE"}
CONTENT_TYPE == "content-type"
APPLICATION_JSON == "application/json"

\* Header lists an operation's own builder can produce: a list of
\* <<name, value>> entries.
BuilderHeaders == {<<>>, << <<CONTENT_TYPE, "text/plain">> >>}

\* Errors the transport capability can return (values of crate::Error).
TransportErrors == {[type |-> "Reqwest", detail |-> "connect"],
                    [type |-> "Reqwest", detail |-> "timeout"]}

Statuses == {200, 403}
\* Response bodies: a success payload, a protocol-error envelope with its
\* errcode, or bytes that are neither.
Bodies == {[shape |-> "success", errcode |-> ""],
           [shape |-> "error", errcode |-> "M_FORBIDDEN"],
           [shape |-> "garbage", errcode |-> ""]}
\* Header entries of a transport response as HeaderMap::drain yields them:
\* <<Some(name), value>> for the first value of a name, <<None, value>> for
\* each further value of the same name.
ResponseHeaders == {<< <<Some("etag"), "1">>, <<None, "2">>, <<Some("server"), "s">> >>}
Responses == [status : Statuses, headers : ResponseHeaders, body : Bodies]

NoRequest == [method |-> "none", headers |-> <<>>, access_token |-> None]
NoResponse == [status |-> 0, headers |-> <<>>, body |-> [shape |-> "none", errcode |-> ""]]
NoResult == [type |-> "none", detail |-> ""]

\* The state of one invocation of send.
\*   pc                       where the caller is
\*   requires_authentication  Request::METADATA.requires_authentication, while
\*                            send_request runs
\*   built                    the wire request as try_into_http_request made it
\*   wire                     the wire request handed to the transport, while
\*                            the transport has it
\*   returned                 the error the transport returned, if it did
\*   response                 the transport's response, until its body is read
\*   result                   what send returned
\*   trace                    what the invocation did, from the construction of
\*                            the wire request on
Idle == [pc |-> "idle", requires_authentication |-> FALSE, built |-> NoRequest,
         wire |-> NoRequest, returned |-> NoResult, response |-> NoResponse,
         result |-> NoResult, trace |-> <<>>]

----------------------------------------------------------------------------
(* Request envelopes: domains *)

MaxEnvelopes == 2
Slots == 1..MaxEnvelopes

\* Values of a 128-bit identifier; two of them, so that a generator may repeat.
Uuids == {"u1", "u2"}

\* The request types that have a From into OutgoingRequests, and two values
\* of each.
RequestTypes == {"KeysUploadRequest", "KeysQueryRequest", "ToDeviceRequest"}
Operations == [type : RequestTypes, value : {"a", "b"}]

\* The response types that have a From into IncomingResponse.
ResponseTypes == {"KeysUploadResponse", "KeysQueryResponse", "ToDeviceResponse",
                  "KeysClaimResponse"}
ResponsePayloads == [type : ResponseTypes, value : {"r"}]

\* Variant of OutgoingRequestsVariants without the KeysQuery variant.
OutgoingRequestsVariants_without_query == {"KeysUpload", "ToDeviceRequest"}

\* pub enum OutgoingRequests and pub enum IncomingResponse: their variants.
OutgoingRequestsVariants == {"KeysUpload", "KeysQuery", "ToDeviceRequest"}
IncomingResponseCases == {"KeysUpload", "KeysQuery", "ToDevice", "KeysClaim"}

\* The api module each imported type comes from (the use declaration).
Endpoint(type) ==
    CASE type \in {"KeysUploadRequest", "KeysUploadResponse"} -> "upload_keys"
      [] type \in {"KeysQueryRequest", "KeysQueryResponse"} -> "get_keys"
      [] type \in {"ToDeviceRequest", "ToDeviceResponse"} -> "send_event_to_device"
      [] type = "KeysClaimResponse" -> "claim_keys"

NoOperation == [type |-> "none", value |-> ""]
NoPayload == [variant |-> "none", request |-> NoOperation]
NoEnvelope == [life |-> "none", request_id |-> "", request |-> NoPayload,
               created |-> [request_id |-> "", operation |-> NoOperation],
               recorded |-> "", sent |-> NoPayload, resolved_by |-> ""]
NoResolution == [case |-> "none", response |-> [type |-> "none", value |-> ""]]

----------------------------------------------------------------------------
(* Pure steps of the dispatcher *)

\* HeaderMap::append: the value is added to the values the name already has.
append(headers, name, value) == Append(headers, <<name, value>>)

\* HeaderMap::insert: the value replaces every value the name already has.
insert(headers, name, value) ==
    Append(SelectSeq(headers, LAMBDA e : e[1] # name), <<name, value>>)

\* Variant of access_token without the early return: an absent session
\* gives the token None.
access_token_unchecked(s) ==
    [ok |-> TRUE, token |-> IF s = None THEN None ELSE Some(s[1].access_token)]

\* Variant of access_token that also rejects a session with an empty token.
access_token_nonempty(s) ==
    IF s = None \/ s[1].access_token = ""
    THEN [ok |-> FALSE, token |-> None]
    ELSE [ok |-> TRUE, token |-> Some(s[1].access_token)]

\* if let Some(session) = read_guard.as_ref() { Some(access_token) } else { return Err }
access_token(s) ==
    IF s = None
    THEN [ok |-> FALSE, token |-> None]
    ELSE [ok |-> TRUE, token |-> Some(s[1].access_token)]

\* request.try_into_http_request(homeserver, access_token): the operation's own
\* conversion, which fails or yields a wire request carrying the token it was
\* given, with the method and headers the operation chooses.
try_into_http_request(token) ==
    {[ok |-> FALSE, request |-> NoRequest]} \cup
    {[ok |-> TRUE, request |-> [method |-> m, headers |-> h, access_token |-> token]] :
        m \in Methods, h \in BuilderHeaders}

\* Variant of normalize_headers that appends for every method.
normalize_headers_any_method(request) ==
    [request EXCEPT !.headers = append(@, CONTENT_TYPE, APPLICATION_JSON)]

\* if let POST | PUT | DELETE = *request.method() { headers_mut().append(CONTENT_TYPE, json) }
normalize_headers(request) ==
    IF request.method \in {"POST", "PUT", "DELETE"}
    THEN [request EXCEPT !.headers = append(@, CONTENT_TYPE, APPLICATION_JSON)]
    ELSE request

\* Variant of build_and_send that calls the transport although the
\* construction of the wire request failed.
build_and_send_despite_error(rec, outcome) ==
    [rec EXCEPT !.pc = "transport_wait",
                !.built = outcome.request,
                !.wire = outcome.request,
                !.trace = @ \o (IF outcome.ok
                                THEN <<"try_into_http_request", "built",
                                       "request.method", "inner.send_request">>
                                ELSE <<"try_into_http_request", "inner.send_request">>)]

\* The rest of send_request once the token is known: build the wire request
\* (an error returns through `?`), normalize its headers and call the transport.
build_and_send(rec, outcome) ==
    IF outcome.ok
    THEN [rec EXCEPT !.pc = "transport_wait",
                     !.built = outcome.request,
                     !.wire = normalize_headers(outcome.request),
                     !.trace = @ \o <<"try_into_http_request", "built",
                                      "request.method", "inner.send_request">>]
    ELSE [rec EXCEPT !.pc = "done",
                     !.result = [type |-> "IntoHttp", detail |-> ""],
                     !.trace = @ \o <<"try_into_http_request">>]

\* response_to_http_response, up to the body read: the status is kept and the
\* drained header entries that carry a name are inserted into the new header map.
RECURSIVE flatten(_, _)
flatten(entries, headers) ==
    IF entries = <<>> THEN headers
    ELSE LET e == Head(entries)
         IN  flatten(Tail(entries),
                     IF e[1] # None THEN insert(headers, e[1][1], e[2]) ELSE headers)

response_to_http_response(response) ==
    [status |-> response.status,
     headers |-> flatten(response.headers, <<>>),
     body |-> response.body]

\* Request::IncomingResponse::try_from(http_response): the operation's decode.
\* A status below 400 is parsed as the success type; any other status is parsed
\* as the operation's error envelope.
try_from(http_response) ==
    IF http_response.status < 400
    THEN IF http_response.body.shape = "success"
         THEN [type |-> "Ok", detail |-> "value"]
         ELSE [type |-> "Deserialization", detail |-> ""]
    ELSE IF http_response.body.shape = "error"
         THEN [type |-> "Known", detail |-> http_response.body.errcode]
         ELSE [type |-> "Unknown", detail |-> ""]

\* Variant of decoded that reports a protocol error as a decode failure.
decoded_as_failure(response) ==
    LET r == try_from(response_to_http_response(response))
    IN  IF r.type = "Known" THEN [type |-> "Deserialization", detail |-> ""] ELSE r

\* Ok(Request::IncomingResponse::try_from(response)?): a decoded value is
\* returned as it is and a decode error is returned through From, which keeps
\* its variant.
decoded(response) == try_from(response_to_http_response(response))

----------------------------------------------------------------------------
(* Initial state: a fresh HttpClient, nobody in send, no session yet (a     *)
(* login or a restored session is a step of the external writer).           *)

Init ==
    /\ session = None
    /\ readers = {}
    /\ writer = FALSE
    /\ waiting = FALSE
    /\ call = [c \in Callers |-> Idle]
    /\ envelope = [i \in Slots |-> NoEnvelope]
    /\ resolution = NoResolution

----------------------------------------------------------------------------
(* Steps of a caller of HttpClient::send *)

\* Variant of Send that reads the session whatever the operation's metadata.
SendReadingSession(c, auth) ==
    /\ call[c].pc = "idle"
    /\ UNCHANGED <<session, readers, writer, waiting, envelope, resolution>>
    /\ call' = [call EXCEPT ![c].requires_authentication = auth,
                            ![c].pc = "read_wait"]

\* send is called with an operation whose METADATA.requires_authentication is
\* auth.  With authentication the caller reaches session.read().await; without
\* it the token is None and the caller runs on to the transport call.
Send(c, auth) ==
    /\ call[c].pc = "idle"
    /\ UNCHANGED <<session, readers, writer, waiting, envelope, resolution>>
    /\ LET rec == [call[c] EXCEPT !.requires_authentication = auth]
       IN  IF auth
           THEN call' = [call EXCEPT ![c] = [rec EXCEPT !.pc = "read_wait"]]
           ELSE \E outcome \in try_into_http_request(None) :
                    call' = [call EXCEPT ![c] = build_and_send(rec, outcome)]

\* Variant of ReadAcquire that takes the write side of the lock.
ReadAcquireExclusive(c) ==
    /\ call[c].pc = "read_wait"
    /\ ~writer
    /\ readers = {}
    /\ writer' = TRUE
    /\ call' = [call EXCEPT ![c].pc = "holding"]
    /\ UNCHANGED <<session, readers, waiting, envelope, resolution>>

\* Variant of ReadAcquire for a lock that admits one reader at a time.
ReadAcquireMutex(c) ==
    /\ call[c].pc = "read_wait"
    /\ ~writer
    /\ ~waiting
    /\ readers = {}
    /\ readers' = readers \cup {c}
    /\ call' = [call EXCEPT ![c].pc = "holding"]
    /\ UNCHANGED <<session, writer, waiting, envelope, resolution>>

\* session.read().await completes: the lock is not write-locked and no writer
\* is queued before this reader.
ReadAcquire(c) ==
    /\ call[c].pc = "read_wait"
    /\ ~writer
    /\ ~waiting
    /\ readers' = readers \cup {c}
    /\ call' = [call EXCEPT ![c].pc = "holding"]
    /\ UNCHANGED <<session, writer, waiting, envelope, resolution>>

\* Variant of SendRequest that keeps the read guard: read_guard lives on
\* while the transport call is awaited.
SendRequestKeepingGuard(c) ==
    /\ call[c].pc = "holding"
    /\ UNCHANGED <<session, readers, writer, waiting, envelope, resolution>>
    /\ LET auth == access_token(session)
       IN  IF auth.ok
           THEN \E outcome \in try_into_http_request(auth.token) :
                    call' = [call EXCEPT ![c] = build_and_send(call[c], outcome)]
           ELSE call' = [call EXCEPT ![c].pc = "done",
                                     ![c].result = [type |-> "AuthenticationRequired",
                                                    detail |-> ""]]

\* With the read guard: the session check, the construction of the wire
\* request, the end of the guard's block, the headers and the transport call.
SendRequest(c) ==
    /\ call[c].pc = "holding"
    /\ readers' = readers \ {c}
    /\ UNCHANGED <<session, writer, waiting, envelope, resolution>>
    /\ LET auth == access_token(session)
       IN  IF auth.ok
           THEN \E outcome \in try_into_http_request(auth.token) :
                    call' = [call EXCEPT ![c] = build_and_send(call[c], outcome)]
           ELSE call' = [call EXCEPT ![c].pc = "done",
                                     ![c].result = [type |-> "AuthenticationRequired",
                                                    detail |-> ""]]

\* The transport returns Ok(response), which ends send_request: the wire
\* request was moved into the transport and nothing reads the operation's
\* METADATA any more.  send goes on to response_to_http_response and reaches
\* response.bytes().await.
TransportOk(c, response) ==
    /\ call[c].pc = "transport_wait"
    /\ call' = [call EXCEPT ![c].pc = "body_wait",
                            ![c].requires_authentication = FALSE,
                            ![c].built = NoRequest,
                            ![c].wire = NoRequest,
                            ![c].response = response,
                            ![c].trace = @ \o <<"response_to_http_response", "bytes">>]
    /\ UNCHANGED <<session, readers, writer, waiting, envelope, resolution>>

\* Variant of TransportErr that calls the transport again after a failure.
TransportErrRetry(c, error) ==
    /\ call[c].pc = "transport_wait"
    /\ call' = [call EXCEPT ![c].returned = error,
                            ![c].trace = Append(@, "inner.send_request")]
    /\ UNCHANGED <<session, readers, writer, waiting, envelope, resolution>>

\* Variant of TransportErr that returns another error than the transport's.
TransportErrWrapped(c, error) ==
    /\ call[c].pc = "transport_wait"
    /\ call' = [call EXCEPT ![c].pc = "done",
                            ![c].requires_authentication = FALSE,
                            ![c].built = NoRequest,
                            ![c].wire = NoRequest,
                            ![c].returned = error,
                            ![c].result = [type |-> "Http", detail |-> error.detail]]
    /\ UNCHANGED <<session, readers, writer, waiting, envelope, resolution>>

\* The transport returns Err(error): `?` in send returns it.
TransportErr(c, error) ==
    /\ call[c].pc = "transport_wait"
    /\ call' = [call EXCEPT ![c].pc = "done",
                            ![c].requires_authentication = FALSE,
                            ![c].built = NoRequest,
                            ![c].wire = NoRequest,
                            ![c].returned = error,
                            ![c].result = error]
    /\ UNCHANGED <<session, readers, writer, waiting, envelope, resolution>>

\* The body is read: the canonical response is decoded and send returns.
BodyOk(c) ==
    /\ call[c].pc = "body_wait"
    /\ call' = [call EXCEPT ![c].pc = "done",
                            ![c].response = NoResponse,
                            ![c].result = decoded(call[c].response),
                            ![c].trace = Append(@, "try_from")]
    /\ UNCHANGED <<session, readers, writer, waiting, envelope, resolution>>

\* The body read fails: `?` returns the reqwest error.
BodyErr(c) ==
    /\ call[c].pc = "body_wait"
    /\ call' = [call EXCEPT ![c].pc = "done",
                            ![c].response = NoResponse,
                            ![c].result = [type |-> "Reqwest", detail |-> "body"]]
    /\ UNCHANGED <<session, readers, writer, waiting, envelope, resolution>>

\* The caller takes the result; it may call send again.
Return(c) ==
    /\ call[c].pc = "done"
    /\ call' = [call EXCEPT ![c] = Idle]
    /\ UNCHANGED <<session, readers, writer, waiting, envelope, resolution>>

----------------------------------------------------------------------------
(* The external writer of the session (login, logout, credential refresh):  *)
(* session.write().await, an assignment and the end of the write guard.     *)

\* session.write() is called while read guards are out: the writer is queued.
WriteRequest ==
    /\ ~writer
    /\ ~waiting
    /\ readers # {}
    /\ waiting' = TRUE
    /\ UNCHANGED <<session, readers, writer, call, envelope, resolution>>

\* session.write().await completes: no guard is out.
WriteAcquire ==
    /\ ~writer
    /\ readers = {}
    /\ writer' = TRUE
    /\ waiting' = FALSE
    /\ UNCHANGED <<session, readers, call, envelope, resolution>>

WriteRelease(s) ==
    /\ writer
    /\ session' = s
    /\ writer' = FALSE
    /\ UNCHANGED <<readers, waiting, call, envelope, resolution>>

Next ==
    \/ \E c \in Callers, auth \in BOOLEAN : Send(c, auth)
    \/ \E c \in Callers : ReadAcquire(c)
    \/ \E c \in Callers : SendRequest(c)
    \/ \E c \in Callers, response \in Responses : TransportOk(c, response)
    \/ \E c \in Callers, error \in TransportErrors : TransportErr(c, error)
    \/ \E c \in Callers : BodyOk(c)
    \/ \E c \in Callers : BodyErr(c)
    \/ \E c \in Callers : Return(c)
    \/ WriteAcquire
    \/ \E s \in Sessions : WriteRelease(s)

\* The dispatcher with a writer that takes the lock when it finds it free.
Spec == Init /\ [][Next]_vars

\* The same with a writer that also calls session.write() while read guards
\* are out and is queued.  A caller that holds the read guard runs without
\* suspending up to the end of the guard, and the lock hands itself to the
\* queued writer once it is free; nothing makes a transport call or a body
\* read complete.
LockNext ==
    \/ \E c \in Callers, auth \in BOOLEAN : Send(c, auth)
    \/ \E c \in Callers : ReadAcquire(c)
    \/ \E c \in Callers : SendRequest(c)
    \/ \E c \in Callers, response \in Responses : TransportOk(c, response)
    \/ \E c \in Callers, error \in TransportErrors : TransportErr(c, error)
    \/ \E c \in Callers : BodyOk(c)
    \/ \E c \in Callers : BodyErr(c)
    \/ \E c \in Callers : Return(c)
    \/ WriteRequest
    \/ WriteAcquire
    \/ \E s \in Sessions : WriteRelease(s)

LockSpec ==
    /\ Init
    /\ [][LockNext]_vars
    /\ WF_vars(WriteAcquire)
    /\ \A c \in Callers : WF_vars(SendRequest(c))

----------------------------------------------------------------------------
(* Request envelopes: requests.rs *)

dispatcher_vars == <<session, readers, writer, waiting, call>>

\* Variant of OutgoingRequests_from with the variants of the two keys
\* requests exchanged.
OutgoingRequests_from_swapped(operation) ==
    CASE operation.type = "KeysQueryRequest" -> [variant |-> "KeysUpload", request |-> operation]
      [] operation.type = "KeysUploadRequest" -> [variant |-> "KeysQuery", request |-> operation]
      [] operation.type = "ToDeviceRequest" -> [variant |-> "ToDeviceRequest", request |-> operation]

\* impl From<KeysQueryRequest>, From<KeysUploadRequest>, From<ToDeviceRequest>
\* for OutgoingRequests.
OutgoingRequests_from(operation) ==
    CASE operation.type = "KeysQueryRequest" -> [variant |-> "KeysQuery", request |-> operation]
      [] operation.type = "KeysUploadRequest" -> [variant |-> "KeysUpload", request |-> operation]
      [] operation.type = "ToDeviceRequest" -> [variant |-> "ToDeviceRequest", request |-> operation]

\* Variant of IncomingResponse_from that files a keys-claim response under
\* KeysQuery.
IncomingResponse_from_misfiled(response) ==
    CASE response.type = "KeysUploadResponse" -> [case |-> "KeysUpload", response |-> response]
      [] response.type = "KeysQueryResponse" -> [case |-> "KeysQuery", response |-> response]
      [] response.type = "ToDeviceResponse" -> [case |-> "ToDevice", response |-> response]
      [] response.type = "KeysClaimResponse" -> [case |-> "KeysQuery", response |-> response]

\* impl From<&KeysUploadResponse>, From<&KeysQueryResponse>,
\* From<&ToDeviceResponse>, From<&KeysClaimResponse> for IncomingResponse.
IncomingResponse_from(response) ==
    CASE response.type = "KeysUploadResponse" -> [case |-> "KeysUpload", response |-> response]
      [] response.type = "KeysQueryResponse" -> [case |-> "KeysQuery", response |-> response]
      [] response.type = "ToDeviceResponse" -> [case |-> "ToDevice", response |-> response]
      [] response.type = "KeysClaimResponse" -> [case |-> "KeysClaim", response |-> response]

\* OutgoingRequest::request_id and OutgoingRequest::request.
request_id(e) == e.request_id
request(e) == e.request

\* Variant of clone that gives the copy another identifier.
clone_with_other_id(e) ==
    [e EXCEPT !.request_id = CHOOSE u \in Uuids : u # e.request_id]

\* #[derive(Clone)] on OutgoingRequest: the identifier is copied and the Arc
\* of the payload is shared.
clone(e) == e

\* An envelope is made for an operation: the identifier is a fresh random
\* Uuid, the payload is the operation converted with From.
Create(i, operation, id) ==
    /\ envelope[i].life = "none"
    /\ envelope' = [envelope EXCEPT ![i] =
            [NoEnvelope EXCEPT !.life = "Created",
                               !.request_id = id,
                               !.request = OutgoingRequests_from(operation),
                               !.created = [request_id |-> id, operation |-> operation]]]
    /\ UNCHANGED <<dispatcher_vars, resolution>>

\* envelope[i].clone() is stored in the free slot j.
Clone(i, j) ==
    /\ envelope[i].life = "Created"
    /\ envelope[j].life = "none"
    /\ envelope' = [envelope EXCEPT ![j] = clone(envelope[i])]
    /\ UNCHANGED <<dispatcher_vars, resolution>>

\* The envelope is handed to a sender: the caller records request_id() and
\* the sender takes request().
Dispatch(i) ==
    /\ envelope[i].life = "Created"
    /\ envelope' = [envelope EXCEPT ![i].life = "Dispatched",
                                    ![i].recorded = request_id(envelope[i]),
                                    ![i].sent = request(envelope[i])]
    /\ UNCHANGED <<dispatcher_vars, resolution>>

\* Variant of Resolve that takes any response for any envelope that is not
\* yet at its end.
ResolveUncorrelated(i, id, response) ==
    /\ envelope[i].life \in {"Created", "Dispatched", "Abandoned"}
    /\ envelope' = [envelope EXCEPT ![i].life = "Resolved",
                                    ![i].resolved_by = id]
    /\ resolution' = IncomingResponse_from(response)
    /\ UNCHANGED dispatcher_vars

\* The response to the request with identifier id arrives: the dispatched
\* envelope the caller recorded under id is resolved with the response
\* converted into the resolution union.
Resolve(i, id, response) ==
    /\ envelope[i].life = "Dispatched"
    /\ envelope[i].recorded = id
    /\ Endpoint(response.type) = Endpoint(envelope[i].sent.request.type)
    /\ envelope' = [envelope EXCEPT ![i].life = "Resolved",
                                    ![i].resolved_by = id]
    /\ resolution' = IncomingResponse_from(response)
    /\ UNCHANGED dispatcher_vars

\* The caller gives up waiting: nothing else happens.
Abandon(i) ==
    /\ envelope[i].life = "Dispatched"
    /\ envelope' = [envelope EXCEPT ![i].life = "Abandoned"]
    /\ UNCHANGED <<dispatcher_vars, resolution>>

\* A resolved or abandoned envelope is destroyed.
Drop(i) ==
    /\ envelope[i].life \in {"Resolved", "Abandoned"}
    /\ envelope' = [envelope EXCEPT ![i] = NoEnvelope]
    /\ UNCHANGED <<dispatcher_vars, resolution>>

\* A decoded response that belongs to no envelope (a keys-claim response) is
\* converted into the resolution union.
Receive(response) ==
    /\ resolution' = IncomingResponse_from(response)
    /\ UNCHANGED <<dispatcher_vars, envelope>>

EnvNext ==
    \/ \E i \in Slots, operation \in Operations, id \in Uuids : Create(i, operation, id)
    \/ \E i, j \in Slots : Clone(i, j)
    \/ \E i \in Slots : Dispatch(i)
    \/ \E i \in Slots, id \in Uuids, response \in ResponsePayloads : Resolve(i, id, response)
    \/ \E i \in Slots : Abandon(i)
    \/ \E i \in Slots : Drop(i)
    \/ \E response \in ResponsePayloads : Receive(response)

EnvSpec == Init /\ [][EnvNext]_vars

----------------------------------------------------------------------------
(* Properties *)

\* The number of times e occurs in a trace.
Count(seq, e) == Cardinality({i \in DOMAIN seq : seq[i] = e})

\* The values of a header name, in order.
values(headers, name) ==
    LET es == SelectSeq(headers, LAMBDA e : e[1] = name)
    IN  [i \in DOMAIN es |-> es[i][2]]

TransportCalls(c) == Count(call[c].trace, "inner.send_request")
WasBuilt(c) == Count(call[c].trace, "built") > 0
Mutating == {"POST", "PUT", "DELETE"}
AuthenticationRequired == [type |-> "AuthenticationRequired", detail |-> ""]
IntoHttpError == [type |-> "IntoHttp", detail |-> ""]

\* The caller leaves the session check (the step made with the read guard).
Checks(c) == call[c].pc = "holding" /\ call'[c] # call[c]

\* C1: when an operation that requires authentication gets the read view of
\* the session and the session is None, send returns AuthenticationRequired,
\* and that invocation has built no wire request and has not called the
\* transport.
C1_AuthenticationRequired ==
    [][\A c \in Callers :
        (Checks(c) /\ call[c].requires_authentication /\ session = None)
            => /\ call'[c].pc = "done"
               /\ call'[c].result = AuthenticationRequired
               /\ call'[c].trace = <<>>
               /\ call'[c].built = NoRequest
               /\ call'[c].wire = NoRequest]_vars

C1_Witness ==
    \E c \in Callers :
        /\ call[c].pc = "done"
        /\ call[c].result = AuthenticationRequired
        /\ session = None

\* C2: an operation that does not require authentication never waits for nor
\* holds the read guard of the session, never gets AuthenticationRequired, and
\* the wire request it hands to the transport carries no access token,
\* whatever the session is.
C2_NoAuthenticationNoSession ==
    \A c \in Callers :
        /\ (call[c].pc \in {"read_wait", "holding"} \/ c \in readers)
                => call[c].requires_authentication
        /\ call[c].result = AuthenticationRequired
                => call[c].requires_authentication
        /\ (call[c].pc = "transport_wait" /\ ~call[c].requires_authentication)
                => /\ call[c].wire.access_token = None
                   /\ call[c].built.access_token = None
                   /\ TransportCalls(c) = 1

C2_Witness ==
    \E c \in Callers :
        /\ call[c].pc = "transport_wait"
        /\ ~call[c].requires_authentication
        /\ session = None
        /\ call[c].wire # NoRequest

\* C3: a POST, PUT or DELETE request handed to the transport has exactly one
\* content-type value, application/json, whatever the builder had set.
C3_ContentTypeOverridden ==
    \A c \in Callers :
        (call[c].pc = "transport_wait" /\ call[c].wire.method \in Mutating)
            => values(call[c].wire.headers, CONTENT_TYPE) = <<APPLICATION_JSON>>

\* C4: a request of any other method (GET) is handed to the transport as the
\* builder made it: its content-type values are the builder's.
C4_ContentTypeUntouched ==
    \A c \in Callers :
        (call[c].pc = "transport_wait" /\ call[c].built.method \notin Mutating)
            => /\ values(call[c].wire.headers, CONTENT_TYPE)
                    = values(call[c].built.headers, CONTENT_TYPE)
               /\ call[c].wire = call[c].built

C4_Witness ==
    \E c \in Callers :
        /\ call[c].pc = "transport_wait"
        /\ call[c].wire.method = "GET"
        /\ values(call[c].wire.headers, CONTENT_TYPE) = <<"text/plain">>

\* C5 as stated: every invocation of send that has returned made exactly one
\* call to the transport.
C5_ExactlyOneTransportCall ==
    \A c \in Callers : call[c].pc = "done" => TransportCalls(c) = 1

\* C5 amended: an invocation of send calls the transport at most once; it has
\* called it exactly once when the wire request was built, and not at all when
\* send returns AuthenticationRequired or a request-construction error.
C5_AtMostOneTransportCall ==
    \A c \in Callers :
        /\ TransportCalls(c) <= 1
        /\ call[c].pc \in {"transport_wait", "body_wait"} => TransportCalls(c) = 1
        /\ call[c].pc = "done"
            => (TransportCalls(c) = 0
                    <=> call[c].result \in {AuthenticationRequired, IntoHttpError})

C5_Witness ==
    \E c, d \in Callers :
        /\ call[c].pc = "done" /\ TransportCalls(c) = 1
        /\ call[d].pc = "done" /\ TransportCalls(d) = 0

\* C6: when the transport returns an error, send returns that very error, has
\* called the transport once, and has reached neither
\* response_to_http_response, the body read nor the decode.
C6_TransportErrorReturned ==
    \A c \in Callers :
        call[c].returned # NoResult
            => /\ call[c].pc = "done"
               /\ call[c].result = call[c].returned
               /\ TransportCalls(c) = 1
               /\ Count(call[c].trace, "response_to_http_response") = 0
               /\ Count(call[c].trace, "bytes") = 0
               /\ Count(call[c].trace, "try_from") = 0

C6_Witness ==
    \E c \in Callers :
        /\ call[c].pc = "done"
        /\ call[c].returned \in TransportErrors
        /\ call[c].result = [type |-> "Reqwest", detail |-> "connect"]

\* C7: when try_into_http_request was called and built no wire request, send
\* has returned the request-construction error and has done nothing else: no
\* header normalization, no transport call, no body read, no decode.
C7_ConstructionErrorReturned ==
    \A c \in Callers :
        (Count(call[c].trace, "try_into_http_request") > 0 /\ ~WasBuilt(c))
            => /\ call[c].pc = "done"
               /\ call[c].result = IntoHttpError
               /\ call[c].trace = <<"try_into_http_request">>
               /\ call[c].wire = NoRequest

C7_Witness ==
    \E c \in Callers :
        /\ call[c].pc = "done"
        /\ call[c].result = IntoHttpError
        /\ call[c].requires_authentication
        /\ TransportCalls(c) = 0

\* The body read of caller c succeeds in this step.
BodyIsRead(c) ==
    /\ call[c].pc = "body_wait"
    /\ call'[c].pc = "done"
    /\ call'[c].result # [type |-> "Reqwest", detail |-> "body"]

\* C8: when the transport call and the body read succeed, send returns what
\* the operation's decode makes of the normalized response: the decoded value
\* for status 200 with a success body, the protocol error with the server's
\* errcode for status 403 with an error envelope, and a decode failure only
\* when decode fails.
C8_DecodeResultReturned ==
    [][\A c \in Callers :
        BodyIsRead(c)
            => LET r == call[c].response
                   http == response_to_http_response(r)
               IN  /\ call'[c].result = try_from(http)
                   /\ http.status = r.status /\ http.body = r.body
                   /\ (r.status = 200 /\ r.body.shape = "success")
                        => call'[c].result = [type |-> "Ok", detail |-> "value"]
                   /\ (r.status = 403 /\ r.body.shape = "error")
                        => call'[c].result = [type |-> "Known", detail |-> r.body.errcode]
                   /\ call'[c].result.type \in {"Deserialization", "Unknown"}
                        <=> ~ \/ (r.status < 400 /\ r.body.shape = "success")
                              \/ (r.status >= 400 /\ r.body.shape = "error")]_vars

C8_Witness ==
    \E c, d \in Callers :
        /\ call[c].pc = "done" /\ call[c].result = [type |-> "Ok", detail |-> "value"]
        /\ call[d].pc = "done" /\ call[d].result = [type |-> "Known", detail |-> "M_FORBIDDEN"]

\* C9: no step of a send invocation changes the session or takes the write
\* side of its lock: the session changes only in steps of the external writer.
C9_SessionReadOnly ==
    [][(call' # call) => (session' = session /\ writer' = writer)]_vars

C9_Witness ==
    \E c, d \in Callers :
        /\ session # None
        /\ call[c].pc = "done" /\ call[c].result.type = "Ok"
        /\ call[d].pc = "done" /\ call[d].result = AuthenticationRequired

\* C10 as stated: a wire request of an operation that requires authentication
\* is built only with a non-empty access token.
C10_TokenNonEmpty ==
    \A c \in Callers :
        (call[c].requires_authentication /\ call[c].built # NoRequest)
            => (call[c].built.access_token # None
                /\ call[c].built.access_token # Some(""))

\* C10 amended: for an operation that requires authentication a wire request
\* is built only when a session is present, and the token is not examined:
\* with a present session, whatever its token (the empty string too), send
\* never returns AuthenticationRequired, and the wire request it builds and
\* hands to the transport carries that token.
C10_SessionPresent ==
    [][\A c \in Callers :
        (Checks(c) /\ call[c].requires_authentication)
            => IF session = None
               THEN call'[c].built = NoRequest /\ call'[c].trace = <<>>
               ELSE \/ /\ call'[c].pc = "transport_wait"
                       /\ call'[c].built.access_token = Some(session[1].access_token)
                       /\ call'[c].wire.access_token = Some(session[1].access_token)
                       /\ Count(call'[c].trace, "inner.send_request") = 1
                    \/ /\ call'[c].pc = "done"
                       /\ call'[c].result = IntoHttpError]_vars

C10_Witness ==
    \E c \in Callers :
        /\ call[c].pc = "transport_wait"
        /\ call[c].requires_authentication
        /\ call[c].wire.access_token = Some("")
        /\ session = Some([access_token |-> ""])

Live(i) == envelope[i].life # "none"

\* C11: the payload read back with request() from an envelope made from an
\* operation is the variant of that operation's type (KeysUpload for a keys
\* upload, KeysQuery for a keys query, ToDeviceRequest for a to-device
\* request) and holds the operation as it was given; so does the payload a
\* sender took at dispatch.
C11_RoundTrip ==
    \A i \in Slots :
        Live(i)
            => LET op == envelope[i].created.operation
                   expected == [variant |-> IF op.type = "KeysUploadRequest" THEN "KeysUpload"
                                            ELSE IF op.type = "KeysQueryRequest" THEN "KeysQuery"
                                            ELSE "ToDeviceRequest",
                                request |-> op]
               IN  /\ request(envelope[i]) = expected
                   /\ envelope[i].life # "Created" => envelope[i].sent = expected

C11_Witness ==
    \E i, j \in Slots :
        /\ envelope[i].life = "Dispatched"
        /\ envelope[i].sent = [variant |-> "KeysQuery",
                               request |-> [type |-> "KeysQueryRequest", value |-> "a"]]
        /\ envelope[j].life = "Dispatched"
        /\ envelope[j].sent = [variant |-> "ToDeviceRequest",
                               request |-> [type |-> "ToDeviceRequest", value |-> "b"]]

\* C12: whatever was done with an envelope and its copies (clone, request_id,
\* request, the steps of its life), request_id() is the identifier it was
\* created with, the identifier a caller recorded is that one too, and the
\* payload holds the operation it was created for.
C12_IdentifierImmutable ==
    \A i \in Slots :
        Live(i)
            => /\ request_id(envelope[i]) = envelope[i].created.request_id
               /\ request_id(envelope[i]) \in Uuids
               /\ envelope[i].life # "Created"
                    => envelope[i].recorded = envelope[i].created.request_id
               /\ request(envelope[i]).request = envelope[i].created.operation

C12_Witness ==
    \E i, j \in Slots :
        /\ i # j
        /\ envelope[i].life = "Resolved"
        /\ envelope[j].life = "Dispatched"
        /\ envelope[j].created = envelope[i].created
        /\ request_id(envelope[j]) = "u2"

\* C14: a response converted into the resolution union has the case of its
\* own type (ToDevice for a to-device response, KeysUpload, KeysQuery and
\* KeysClaim for theirs) and holds that response.
C14_ResponseCase ==
    resolution # NoResolution
        => /\ resolution.response \in ResponsePayloads
           /\ <<resolution.response.type, resolution.case>> \in
                {<<"ToDeviceResponse", "ToDevice">>, <<"KeysUploadResponse", "KeysUpload">>,
                 <<"KeysQueryResponse", "KeysQuery">>, <<"KeysClaimResponse", "KeysClaim">>}

C14_Witness ==
    /\ resolution.case = "ToDevice"
    /\ \E i \in Slots :
        /\ envelope[i].life = "Resolved"
        /\ request(envelope[i]).variant = "ToDeviceRequest"

\* The api module of the payload of a variant of OutgoingRequests and of a
\* case of IncomingResponse.
VariantEndpoint(v) ==
    CASE v = "KeysUpload" -> Endpoint("KeysUploadRequest")
      [] v = "KeysQuery" -> Endpoint("KeysQueryRequest")
      [] v = "ToDeviceRequest" -> Endpoint("ToDeviceRequest")
CaseEndpoint(k) ==
    CASE k = "KeysUpload" -> Endpoint("KeysUploadResponse")
      [] k = "KeysQuery" -> Endpoint("KeysQueryResponse")
      [] k = "ToDevice" -> Endpoint("ToDeviceResponse")
      [] k = "KeysClaim" -> Endpoint("KeysClaimResponse")
VariantsOf(k) == {v \in OutgoingRequestsVariants : VariantEndpoint(v) = CaseEndpoint(k)}
CasesOf(v) == {k \in IncomingResponseCases : CaseEndpoint(k) = VariantEndpoint(v)}

\* C15 as stated: the payload of every envelope has exactly one response
\* case, and every response made has the case of exactly one variant of
\* OutgoingRequests.
C15_OneToOne ==
    /\ \A i \in Slots :
        Live(i) => /\ request(envelope[i]).variant \in OutgoingRequestsVariants
                   /\ Cardinality(CasesOf(request(envelope[i]).variant)) = 1
    /\ resolution # NoResolution
        => /\ resolution.case \in IncomingResponseCases
           /\ Cardinality(VariantsOf(resolution.case)) = 1

\* C15 amended: every variant of OutgoingRequests (KeysUpload, KeysQuery,
\* ToDeviceRequest) has exactly one case of IncomingResponse, and the cases
\* KeysUpload, KeysQuery and ToDevice have exactly one variant each; the
\* fourth case, KeysClaim, has no variant of OutgoingRequests.
C15_VariantsHaveCases ==
    /\ \A i \in Slots :
        Live(i) => /\ request(envelope[i]).variant \in OutgoingRequestsVariants
                   /\ Cardinality(CasesOf(request(envelope[i]).variant)) = 1
    /\ resolution # NoResolution
        => /\ resolution.case \in IncomingResponseCases
           /\ Cardinality(VariantsOf(resolution.case))
                = (IF resolution.case = "KeysClaim" THEN 0 ELSE 1)
    /\ Cardinality(OutgoingRequestsVariants) + 1 = Cardinality(IncomingResponseCases)

C15_Witness ==
    /\ resolution.case = "KeysClaim"
    /\ \E i \in Slots : request(envelope[i]).variant = "KeysQuery"

\* The steps of the life of an envelope.
LifeSteps == {<<"none", "Created">>, <<"Created", "Dispatched">>,
              <<"Dispatched", "Resolved">>, <<"Dispatched", "Abandoned">>,
              <<"Resolved", "none">>, <<"Abandoned", "none">>}

\* C18: an envelope goes Created, Dispatched, then Resolved or Abandoned and
\* nowhere else until it is destroyed: it is resolved only when dispatched,
\* by a response that came with the identifier it has and the caller
\* recorded; a resolved or abandoned envelope changes no more, and
\* abandoning changes nothing but that envelope (no resolution is made).
C18_Lifecycle ==
    [][\A i \in Slots :
        LET a == envelope[i].life
            b == envelope'[i].life
        IN  /\ a # b => <<a, b>> \in LifeSteps
            /\ (a # b /\ b = "Resolved")
                => /\ envelope'[i].resolved_by = request_id(envelope[i])
                   /\ envelope'[i].resolved_by = envelope[i].recorded
                   /\ resolution'.case \in CasesOf(envelope[i].sent.variant)
            /\ (a # b /\ b = "Abandoned")
                => /\ resolution' = resolution
                   /\ envelope'[i].resolved_by = ""
                   /\ \A j \in Slots \ {i} : envelope'[j] = envelope[j]
            /\ (a \in {"Resolved", "Abandoned"} /\ b # "none")
                => envelope'[i] = envelope[i]]_vars

C18_Witness ==
    \E i, j \in Slots :
        /\ envelope[i].life = "Resolved"
        /\ envelope[i].resolved_by = envelope[i].created.request_id
        /\ envelope[j].life = "Abandoned"

Suspended(c) == call[c].pc \in {"transport_wait", "body_wait"}

\* C16: whatever the other callers do, and also while one of them is suspended
\* in its transport call or body read, a caller can take every step of send:
\* it can call send, it gets the read guard whenever no writer holds or
\* awaits the lock (other read guards do not count), and with the guard it
\* can go on to the transport call.
C16_SendsIndependent ==
    \A d \in Callers :
        /\ call[d].pc = "idle" => ENABLED Send(d, TRUE) /\ ENABLED Send(d, FALSE)
        /\ (call[d].pc = "read_wait" /\ ~writer /\ ~waiting) => ENABLED ReadAcquire(d)
        /\ call[d].pc = "holding" => ENABLED SendRequest(d)
        /\ call[d].pc = "transport_wait" => ENABLED TransportErr(d, [type |-> "Reqwest", detail |-> "connect"])
        /\ call[d].pc = "body_wait" => ENABLED BodyOk(d)
        /\ call[d].pc = "done" => ENABLED Return(d)

C16_Witness ==
    \E c, d \in Callers :
        /\ c # d
        /\ Suspended(c)
        /\ call[d].pc = "holding"
        /\ d \in readers

\* C17: a writer queued for the write guard obtains it, whatever the sends
\* do and even if no transport call ever completes.
C17_WriterNotStarved == waiting ~> writer

C17_Witness ==
    /\ waiting
    /\ \E c \in Callers : call[c].pc = "transport_wait"
    /\ \E c \in Callers : call[c].pc = "holding"

\* C20: a caller holds the read guard exactly between getting it and the end
\* of the construction of the wire request, never while it is suspended in the
\* transport call or the body read; so a writer finds the lock free whenever
\* no caller is in that block, and its change of the session leaves every
\* invocation, with the wire request in flight, as it was.
C20_GuardNotHeldWhileSuspended ==
    [][/\ \A c \in Callers : c \in readers' <=> call'[c].pc = "holding"
       /\ (~writer /\ \A c \in Callers : call[c].pc # "holding") => ENABLED WriteAcquire
       /\ session' # session => call' = call]_vars

C20_Witness ==
    \E c \in Callers :
        /\ call[c].pc = "transport_wait"
        /\ call[c].wire.access_token = Some("tok")
        /\ session = Some([access_token |-> ""])

\* The <<name, value>> entries of a transport response: a drained entry
\* without a name belongs to the name of the entry before it.
RECURSIVE named(_, _)
named(entries, last) ==
    IF entries = <<>> THEN <<>>
    ELSE LET e == Head(entries)
             name == IF e[1] # None THEN e[1][1] ELSE last
         IN  <<(<<name, e[2]>>)>> \o named(Tail(entries), name)

Range(seq) == {seq[i] : i \in DOMAIN seq}

\* C19: the canonical response has the status and the body of the transport
\* response and every header entry of it, each value of a repeated name
\* included; and a failed body read ends send without a decode.
C19_ResponsePreserved ==
    \A c \in Callers :
        /\ call[c].pc = "body_wait"
            => LET r == call[c].response
                   http == response_to_http_response(r)
               IN  /\ http.status = r.status
                   /\ http.body = r.body
                   /\ Range(named(r.headers, "")) \subseteq Range(http.headers)
        /\ (call[c].pc = "done" /\ call[c].result = [type |-> "Reqwest", detail |-> "body"])
            => Count(call[c].trace, "try_from") = 0

====
